---------------------------- MODULE Spec2Model ----------------------------
(***************************************************************************)
(* Model of the Arduino sketches of the repository:                        *)
(*   "demo"  car direction test          RC CAR CODES.c lines   3..69      *)
(*   "bt"    Bluetooth controlled robot  RC CAR CODES.c lines  72..143     *)
(*   "lf"    line follower               RC CAR CODES.c lines 146..221     *)
(*   "oa"    obstacle avoider            RC CAR CODES.c lines 223..299     *)
(*   "led"   push button / 2 LEDs / LCD  Code.c (lcd, pushbutton, leds)    *)
(*   "park"  parking buzzer              Code.c (ultrasonic, buzzer)       *)
(* Each behaviour runs one sketch, fixed in the initial state.  A movement *)
(* function is executed one pin write per step, so that the pin state      *)
(* between two digitalWrite calls is a state of the model.                 *)
(* delay() and delayMicroseconds() change no pin and no variable; they are  *)
(* not steps of the model.  Serial.println and the LCD backlight are left   *)
(* out, the LCD text is kept.                                               *)
(***************************************************************************)
EXTENDS Integers, Sequences, FiniteSets

VARIABLES
    sketch,          \* which sketch runs
    pc,              \* position in loop() (statement number, 1 = top)
    cur,             \* movement function being executed, or "none"
    idx,             \* number of pin writes of cur already done
    last,            \* movement function that returned last, or "none"
    pins,            \* [port: pin -> 0/1, pwm: pin -> 0 (timer off) or duty]
    issued,          \* calls made so far by the current loop() iteration
    avail,           \* bt: last result of Serial.available()
    Reading,         \* bt: char Reading
    sl, sr,          \* lf: int sl, sr
    echoSeen,        \* oa/park: whether the echo line went HIGH in pulseIn
    duration,        \* oa/park: long duration
    distance,        \* oa/park: long distance
    button_Reading,  \* led: int button_Reading
    counter,         \* led: int counter
    lcd,             \* led: texts printed on the LCD since the last clear()
    presses          \* led: number of loop iterations that read the button as 1

vars == <<sketch, pc, cur, idx, last, pins, issued, avail, Reading, sl, sr,
          echoSeen, duration, distance, button_Reading, counter,
          lcd, presses>>

---------------------------------------------------------------------------
(* Bounds of the model *)

\* largest echo pulse length drawn, in microseconds (1166/1167/1168 straddle 20 cm)
MaxDuration == 1200
\* largest number of pressed button reads in one behaviour
MaxPresses == 5

---------------------------------------------------------------------------
(* Pins and levels *)

HIGH == 1
LOW == 0

speedL == 10
IN1 == 9
IN2 == 8
IN3 == 7
IN4 == 6
speedR == 5
trig == 3
Red_led == 3
Green_led == 4
ULtrsonic == 6
Buzzer == 2

Pins == 2..10

Sketches == {"demo", "bt", "lf", "oa", "led", "park"}
CarSketches == {"demo", "bt", "lf", "oa"}

\* digitalWrite(pin, val): disconnects the pin's PWM timer and sets the port bit
DigitalWrite(io, pin, val) ==
    [port |-> [io.port EXCEPT ![pin] = IF val = LOW THEN 0 ELSE 1],
     pwm  |-> [io.pwm EXCEPT ![pin] = 0]]

\* analogWrite(pin, val): 0 and 255 are digital writes, else PWM with duty val
AnalogWrite(io, pin, val) ==
    IF val = 0 THEN DigitalWrite(io, pin, LOW)
    ELSE IF val = 255 THEN DigitalWrite(io, pin, HIGH)
    ELSE [port |-> io.port, pwm |-> [io.pwm EXCEPT ![pin] = val]]

\* one pin write <<kind, pin, value>>, kind "d" = digitalWrite, "a" = analogWrite
Apply(io, w) ==
    IF w[1] = "d" THEN DigitalWrite(io, w[2], w[3]) ELSE AnalogWrite(io, w[2], w[3])

\* the duty (0..255) a pin outputs
Duty(io, pin) == IF io.pwm[pin] > 0 THEN io.pwm[pin] ELSE 255 * io.port[pin]

---------------------------------------------------------------------------
(* The movement functions, as the pin writes they make, in order *)

forword ==
    << <<"d", IN1, HIGH>>, <<"d", IN2, LOW>>, <<"d", IN3, HIGH>>, <<"d", IN4, LOW>>,
       <<"a", speedL, 150>>, <<"a", speedR, 150>> >>

\* backword() with its first write raising IN1 instead of lowering it
backword_NoClear ==
    << <<"d", IN1, HIGH>>, <<"d", IN2, HIGH>>, <<"d", IN3, LOW>>, <<"d", IN4, HIGH>>,
       <<"a", speedL, 150>>, <<"a", speedR, 150>> >>

backword ==
    << <<"d", IN1, LOW>>, <<"d", IN2, HIGH>>, <<"d", IN3, LOW>>, <<"d", IN4, HIGH>>,
       <<"a", speedL, 150>>, <<"a", speedR, 150>> >>

left ==
    << <<"d", IN1, LOW>>, <<"d", IN2, LOW>>, <<"d", IN3, HIGH>>, <<"d", IN4, LOW>>,
       <<"a", speedL, 0>>, <<"a", speedR, 150>> >>

right ==
    << <<"d", IN1, HIGH>>, <<"d", IN2, LOW>>, <<"d", IN3, LOW>>, <<"d", IN4, LOW>>,
       <<"a", speedL, 150>>, <<"a", speedR, 0>> >>

\* stopp() of the direction test, the Bluetooth robot and the line follower
stopp ==
    << <<"d", IN1, LOW>>, <<"d", IN2, LOW>>, <<"d", IN3, LOW>>, <<"d", IN4, LOW>>,
       <<"a", speedL, 0>>, <<"a", speedR, 0>> >>

\* the avoider's stopp() writing HIGH to the right speed pin
stoppAvoider_OneSide ==
    << <<"d", speedL, LOW>>, <<"d", speedR, HIGH>> >>

\* stopp() of the obstacle avoider
stoppAvoider ==
    << <<"d", speedL, LOW>>, <<"d", speedR, LOW>> >>

\* the body of movement function f in sketch s
Body(s, f) ==
    CASE f = "forword"  -> forword
      [] f = "backword" -> backword
      [] f = "left"     -> left
      [] f = "right"    -> right
      [] f = "stopp"    -> IF s = "oa" THEN stoppAvoider ELSE stopp

\* one pin write of movement function f
Step(f) ==
    /\ LET body == Body(sketch, f) IN
        /\ pins' = Apply(pins, body[idx + 1])
        /\ IF idx + 1 = Len(body)
             THEN cur' = "none" /\ idx' = 0 /\ last' = f
             ELSE cur' = cur /\ idx' = idx + 1 /\ last' = last
    /\ UNCHANGED <<sketch, pc, issued, avail, Reading, sl, sr, echoSeen, duration,
                   distance, button_Reading, counter, lcd, presses>>

Forword ==
    /\ cur = "forword"
    /\ Step("forword")

Backword ==
    /\ cur = "backword"
    /\ Step("backword")

Left ==
    /\ cur = "left"
    /\ Step("left")

Right ==
    /\ cur = "right"
    /\ Step("right")

Stopp ==
    /\ cur = "stopp"
    /\ Step("stopp")

\* loop() calls movement function f
Call(f) == cur' = f /\ idx' = 0

---------------------------------------------------------------------------
(* Car direction test *)

DemoOrder == <<"forword", "backword", "right", "left", "stopp">>

DemoLoop ==
    /\ sketch = "demo"
    /\ cur = "none"
    /\ Call(DemoOrder[pc])
    /\ issued' = IF pc = 1 THEN <<DemoOrder[pc]>> ELSE Append(issued, DemoOrder[pc])
    /\ pc' = IF pc = Len(DemoOrder) THEN 1 ELSE pc + 1
    /\ UNCHANGED <<sketch, last, pins, avail, Reading, sl, sr, echoSeen, duration,
                   distance, button_Reading, counter, lcd, presses>>

---------------------------------------------------------------------------
(* Bluetooth controlled robot *)

\* bytes the serial link delivers: the five commands and some others
Bytes == {"F", "B", "R", "L", "S", "Z", "f", "0"}

\* the switch with a default branch that stops the car
BtSwitch_DefaultStop(c) ==
    CASE c = "F" -> "forword"
      [] c = "B" -> "backword"
      [] c = "R" -> "right"
      [] c = "L" -> "left"
      [] OTHER   -> "stopp"

\* switch(Reading): the function called, "none" when no case matches
BtSwitch(c) ==
    CASE c = "F" -> "forword"
      [] c = "B" -> "backword"
      [] c = "R" -> "right"
      [] c = "L" -> "left"
      [] c = "S" -> "stopp"
      [] OTHER   -> "none"

BtLoop ==
    /\ sketch = "bt"
    /\ cur = "none"
    /\ \E a \in {0, 1} :
        /\ avail' = a
        /\ IF a > 0
             THEN \E b \in Bytes :
                    /\ Reading' = b
                    /\ Call(BtSwitch(b))
                    /\ issued' = IF BtSwitch(b) = "none" THEN <<>> ELSE <<BtSwitch(b)>>
             ELSE /\ Reading' = Reading
                  /\ Call("none")
                  /\ issued' = <<>>
    /\ UNCHANGED <<sketch, pc, last, pins, sl, sr, echoSeen, duration, distance,
                   button_Reading, counter, lcd, presses>>

---------------------------------------------------------------------------
(* Line follower *)

\* the chain with the calls of right() and left() exchanged
LfDecide_Swapped(l, r) ==
    IF l = 0 /\ r = 0 THEN "forword"
    ELSE IF l = 0 /\ r = 1 THEN "left"
    ELSE IF l = 1 /\ r = 0 THEN "right"
    ELSE IF l = 1 /\ r = 1 THEN "stopp"
    ELSE "none"

\* the if / else-if chain of loop()
LfDecide(l, r) ==
    IF l = 0 /\ r = 0 THEN "forword"
    ELSE IF l = 0 /\ r = 1 THEN "right"
    ELSE IF l = 1 /\ r = 0 THEN "left"
    ELSE IF l = 1 /\ r = 1 THEN "stopp"
    ELSE "none"

LfLoop ==
    /\ sketch = "lf"
    /\ cur = "none"
    /\ \E l \in {0, 1}, r \in {0, 1} :
        /\ sl' = l
        /\ sr' = r
        /\ Call(LfDecide(l, r))
        /\ issued' = IF LfDecide(l, r) = "none" THEN <<>> ELSE <<LfDecide(l, r)>>
    /\ UNCHANGED <<sketch, pc, last, pins, avail, Reading, echoSeen, duration,
                   distance, button_Reading, counter, lcd, presses>>

---------------------------------------------------------------------------
(* Ultrasonic ranging, shared by the obstacle avoider and the parking buzzer *)

\* pulseIn(pin, HIGH): the pulse length in microseconds, 0 when no pulse came
\* before the timeout
pulseIn(seen, d) == IF seen THEN d ELSE 0

\* distance = (duration/2) * 0.0343 with long duration, distance: the integer
\* quotient duration/2, times 0.0343, truncated to a long
DistanceOf(d) == ((d \div 2) * 343) \div 10000

\* the trigger pulse on pin p: LOW, HIGH, LOW
Trigger(io, p) == DigitalWrite(DigitalWrite(DigitalWrite(io, p, LOW), p, HIGH), p, LOW)

---------------------------------------------------------------------------
(* Obstacle avoider *)

\* the test written distance <= 20
OaNear_Inclusive(d) == d <= 20

\* the test of loop(): distance < 20
OaNear(d) == d < 20

OaLoop ==
    /\ sketch = "oa"
    /\ cur = "none"
    /\ IF pc = 1
         THEN \E seen \in BOOLEAN, d \in 1..MaxDuration :
                /\ echoSeen' = seen
                /\ pins' = Trigger(pins, trig)
                /\ duration' = pulseIn(seen, d)
                /\ distance' = DistanceOf(pulseIn(seen, d))
                /\ IF OaNear(DistanceOf(pulseIn(seen, d)))
                     THEN Call("stopp") /\ issued' = <<"Ultrasonic", "stopp">> /\ pc' = 2
                     ELSE Call("forword") /\ issued' = <<"Ultrasonic", "forword">> /\ pc' = 1
         ELSE /\ UNCHANGED <<echoSeen, pins, duration, distance>>
              /\ IF pc = 2
                   THEN Call("backword") /\ issued' = Append(issued, "backword") /\ pc' = 3
                   ELSE Call("right") /\ issued' = Append(issued, "right") /\ pc' = 1
    /\ UNCHANGED <<sketch, last, avail, Reading, sl, sr, button_Reading,
                   counter, lcd, presses>>

---------------------------------------------------------------------------
(* Parking buzzer *)

\* the argument of delayMicroseconds(duration/2), the buzzer's half period
BuzzerDelay(d) == d \div 2

ParkLoop ==
    /\ sketch = "park"
    /\ IF pc = 1
         THEN \E seen \in BOOLEAN, d \in 1..MaxDuration :
                /\ echoSeen' = seen
                /\ pins' = Trigger(pins, ULtrsonic)
                /\ duration' = pulseIn(seen, d)
                /\ distance' = DistanceOf(pulseIn(seen, d))
                /\ issued' = <<"Ultrasonic">>
                /\ pc' = 2
         ELSE /\ UNCHANGED <<echoSeen, duration, distance>>
              /\ IF pc = 2
                   THEN pins' = DigitalWrite(pins, Buzzer, 1)
                        /\ issued' = Append(issued, "buzzerOn") /\ pc' = 3
                   ELSE pins' = DigitalWrite(pins, Buzzer, 0)
                        /\ issued' = Append(issued, "buzzerOff") /\ pc' = 1
    /\ UNCHANGED <<sketch, cur, idx, last, avail, Reading, sl, sr, button_Reading,
                   counter, lcd, presses>>

---------------------------------------------------------------------------
(* Push button, two LEDs and LCD *)

\* loop() with counter++ in the green branch instead of counter = 0
LedStep_NoReset(b, c) ==
    IF b = 1 /\ c = 0
      THEN [red |-> 1, green |-> 0, counter |-> c + 1, clear |-> FALSE, print |-> <<"Red led ">>]
    ELSE IF b = 1 /\ c = 1
      THEN [red |-> 0, green |-> 1, counter |-> c + 1, clear |-> FALSE, print |-> <<"Green led ">>]
    ELSE [red |-> 0, green |-> 0, counter |-> c, clear |-> TRUE, print |-> <<>>]

\* the body of loop() for button reading b and counter c: the LED levels
\* written, the new counter, and what happens to the LCD
LedStep(b, c) ==
    IF b = 1 /\ c = 0
      THEN [red |-> 1, green |-> 0, counter |-> c + 1, clear |-> FALSE, print |-> <<"Red led ">>]
    ELSE IF b = 1 /\ c = 1
      THEN [red |-> 0, green |-> 1, counter |-> 0, clear |-> FALSE, print |-> <<"Green led ">>]
    ELSE [red |-> 0, green |-> 0, counter |-> c, clear |-> TRUE, print |-> <<>>]

LedLoop ==
    /\ sketch = "led"
    /\ \E b \in {0, 1} :
        /\ b = 1 => presses < MaxPresses
        /\ button_Reading' = b
        /\ presses' = presses + b
        /\ LET r == LedStep(b, counter) IN
            /\ pins' = DigitalWrite(DigitalWrite(pins, Red_led, r.red), Green_led, r.green)
            /\ counter' = r.counter
            /\ lcd' = IF r.clear THEN <<>> ELSE lcd \o r.print
    /\ issued' = <<"digitalRead">>
    /\ UNCHANGED <<sketch, pc, cur, idx, last, avail, Reading, sl, sr, echoSeen,
                   duration, distance>>

---------------------------------------------------------------------------
(* The state after setup(): every output pin LOW, globals zero-initialised *)

Init ==
    /\ sketch \in Sketches
    /\ pc = 1
    /\ cur = "none"
    /\ idx = 0
    /\ last = "none"
    /\ pins = [port |-> [p \in Pins |-> 0], pwm |-> [p \in Pins |-> 0]]
    /\ issued = <<>>
    /\ avail = 0
    /\ Reading = "NUL"
    /\ sl = 0
    /\ sr = 0
    /\ echoSeen = FALSE
    /\ duration = 0
    /\ distance = 0
    /\ button_Reading = 0
    /\ counter = 0
    /\ lcd = <<>>
    /\ presses = 0

Next ==
    \/ DemoLoop
    \/ BtLoop
    \/ LfLoop
    \/ OaLoop
    \/ ParkLoop
    \/ LedLoop
    \/ Forword
    \/ Backword
    \/ Left
    \/ Right
    \/ Stopp

Spec == Init /\ [][Next]_vars

---------------------------------------------------------------------------
(* What the claims speak about *)

\* the four direction pins and the two speed outputs
Outputs(io) ==
    <<io.port[IN1], io.port[IN2], io.port[IN3], io.port[IN4],
      Duty(io, speedL), Duty(io, speedR)>>

\* the command table: IN1, IN2, IN3, IN4, left speed, right speed
Row(f) ==
    CASE f = "forword"  -> <<1, 0, 1, 0, 150, 150>>
      [] f = "backword" -> <<0, 1, 0, 1, 150, 150>>
      [] f = "left"     -> <<0, 0, 1, 0, 0, 150>>
      [] f = "right"    -> <<1, 0, 0, 0, 150, 0>>
      [] f = "stopp"    -> <<0, 0, 0, 0, 0, 0>>

BothHighL == pins.port[IN1] = 1 /\ pins.port[IN2] = 1
BothHighR == pins.port[IN3] = 1 /\ pins.port[IN4] = 1

\* C1: in every car sketch, when a movement function has returned, the four
\* direction pins and the two speed outputs equal the table row of that
\* function, whatever they were before the call.
C1_OutputsMatchTable ==
    (sketch \in CarSketches /\ cur = "none" /\ last /= "none")
        => Outputs(pins) = Row(last)

\* C2 as claimed: in every state of every car sketch, between any two pin
\* writes, the forward and backward pins of one channel are never both HIGH.
C2_NeverBothHigh ==
    sketch \in CarSketches => (~BothHighL /\ ~BothHighR)

\* C2 as amended: the forward and backward pins of one channel are never both
\* HIGH when no movement function is in progress, and never at all in the line
\* follower; inside a function they are both HIGH only in the one state between
\* the write that raises the forward pin and the write that lowers the backward
\* pin: of IN1/IN2 after the first write of forword() or right(), of IN3/IN4
\* after the third write of forword() or left().
C2_BothHighOnlyInsideWrites ==
    sketch \in CarSketches =>
        /\ BothHighL => (cur \in {"forword", "right"} /\ idx = 1 /\ sketch /= "lf")
        /\ BothHighR => (cur \in {"forword", "left"} /\ idx = 3 /\ sketch /= "lf")

C2_Witness ==
    /\ sketch = "bt"
    /\ last = "backword"
    /\ cur = "forword"
    /\ idx = 2
    /\ pins.port[IN1] = 1
    /\ pins.port[IN2] = 0
    /\ pins.port[IN4] = 1

\* C3: in every car sketch, when stopp() has returned, both speed outputs
\* (pins 10 and 5) are 0, whatever the pins were before the call.
C3_StopSpeedsZero ==
    (sketch \in CarSketches /\ cur = "none" /\ last = "stopp")
        => (Duty(pins, speedL) = 0 /\ Duty(pins, speedR) = 0)

C3_Witness ==
    /\ sketch = "oa"
    /\ cur = "none"
    /\ last = "stopp"
    /\ pc = 2
    /\ pins.port[IN1] = 1
    /\ Duty(pins, speedL) = 0
    /\ Duty(pins, speedR) = 0

\* the bytes that name a command, and the command each names
CommandBytes == {"F", "B", "R", "L", "S"}
Named(c) ==
    CASE c = "F" -> "forword"
      [] c = "B" -> "backword"
      [] c = "R" -> "right"
      [] c = "L" -> "left"
      [] c = "S" -> "stopp"

\* a Bluetooth loop() iteration that finds no byte, or reads a byte that names
\* no command
BtIgnoredStep ==
    /\ sketch = "bt"
    /\ cur = "none"
    /\ (avail' = 0 \/ Reading' \notin CommandBytes)

\* C4: in the Bluetooth sketch a loop iteration that finds no byte available,
\* or reads a byte outside F, B, R, L, S, leaves the four direction pins and
\* both speed outputs unchanged (and calls nothing); an iteration that reads
\* one of the five bytes calls the function it names, and when that function
\* has returned the outputs are the table row of the named command.
C4_UnmatchedBytesIgnored ==
    /\ [][BtIgnoredStep => (pins' = pins /\ cur' = "none" /\ issued' = <<>>)]_vars
    /\ [][(sketch = "bt" /\ cur = "none" /\ avail' = 1 /\ Reading' \in CommandBytes)
            => (cur' = Named(Reading') /\ idx' = 0 /\ pins' = pins)]_vars
    /\ []((sketch = "bt" /\ cur = "none" /\ issued /= <<>>)
            => (avail = 1 /\ Reading \in CommandBytes /\ issued = <<Named(Reading)>>
                /\ last = Named(Reading) /\ Outputs(pins) = Row(Named(Reading))))

\* F has been obeyed, then Z was read and ignored: the outputs are still Forward
C4_Witness ==
    /\ sketch = "bt"
    /\ cur = "none"
    /\ avail = 1
    /\ Reading = "Z"
    /\ last = "forword"
    /\ Outputs(pins) = Row("forword")

\* the line follower's table
LineTable(l, r) ==
    CASE l = 0 /\ r = 0 -> "forword"
      [] l = 0 /\ r = 1 -> "right"
      [] l = 1 /\ r = 0 -> "left"
      [] l = 1 /\ r = 1 -> "stopp"

\* C5: in the line follower every loop iteration calls exactly one movement
\* function, the one the table gives for the sensor pair read in that
\* iteration: (0,0) forword, (0,1) right, (1,0) left, (1,1) stopp; never
\* backword, never none; and when it has returned the outputs are that row.
C5_LineFollowerTable ==
    sketch = "lf" =>
        /\ (cur /= "none" \/ last /= "none" \/ issued /= <<>>) =>
              /\ issued = <<LineTable(sl, sr)>>
              /\ cur \in {"none", LineTable(sl, sr)}
        /\ (cur = "none" /\ last /= "none") =>
              (last = LineTable(sl, sr) /\ Outputs(pins) = Row(LineTable(sl, sr)))
        /\ cur /= "backword" /\ last /= "backword"

\* after Right, the pair (1,0) has made the car turn Left
C5_Witness ==
    /\ sketch = "lf"
    /\ cur = "none"
    /\ sl = 1
    /\ sr = 0
    /\ last = "left"
    /\ Outputs(pins) = Row("left")

AvoidSequence == <<"Ultrasonic", "stopp", "backword", "right">>

\* C6: in the obstacle avoider, an iteration whose measured distance is below
\* 20 calls stopp, backword, right, in that order, each after the one before
\* has returned, with no measurement and no other call in between; an
\* iteration whose distance is 20 or more calls forword and nothing else.
C6_AvoidSequence ==
    (sketch = "oa" /\ issued /= <<>>) =>
        /\ issued[1] = "Ultrasonic"
        /\ cur \in {"none", issued[Len(issued)]}
        /\ cur = "none" => last = issued[Len(issued)]
        /\ IF distance < 20
             THEN issued = SubSeq(AvoidSequence, 1, IF pc = 1 THEN 4 ELSE pc)
             ELSE issued = <<"Ultrasonic", "forword">> /\ pc = 1

\* distance 19 (an echo of 1167 us): the three calls have been made and returned
C6_Witness ==
    /\ sketch = "oa"
    /\ duration = 1167
    /\ distance = 19
    /\ pc = 1
    /\ cur = "none"
    /\ last = "right"
    /\ issued = AvoidSequence

RedOn == pins.port[Red_led] = 1
GreenOn == pins.port[Green_led] = 1

\* C7: in the LED sketch the n-th loop iteration that reads the button as
\* pressed turns the red LED on and the green off when n is odd, and the green
\* on and the red off when n is even; iterations that read it as not pressed
\* do not change which colour comes next (counter stays the parity of n).
C7_PressesAlternate ==
    sketch = "led" =>
        /\ counter = presses % 2
        /\ (button_Reading = 1 /\ presses % 2 = 1) => (RedOn /\ ~GreenOn)
        /\ (button_Reading = 1 /\ presses % 2 = 0) => (GreenOn /\ ~RedOn)

\* the third pressed read, after a not-pressed read cleared the LCD
C7_Witness ==
    /\ sketch = "led"
    /\ presses = 3
    /\ button_Reading = 1
    /\ lcd = <<"Red led ">>
    /\ RedOn
    /\ ~GreenOn

\* C8: in the LED sketch, once the button has been read as pressed, at the end
\* of every loop iteration exactly one of the two LEDs is on.
C8_ExactlyOneLedOn ==
    (sketch = "led" /\ presses >= 1) => (RedOn /= GreenOn)

\* C9: a measurement in which the echo line never went HIGH ends in a
\* no-reading outcome: the avoider does not take it for a distance below 20
\* (no stopp/backword/right), the buzzer does not get a zero half period.
C9_NoEchoDistinguished ==
    /\ (sketch = "oa" /\ issued /= <<>> /\ ~echoSeen)
          => (~OaNear(distance) /\ issued = <<"Ultrasonic", "forword">>)
    /\ (sketch = "park" /\ pc \in {2, 3} /\ ~echoSeen)
          => BuzzerDelay(duration) > 0

\* C10: for an echo of D microseconds the stored distance is exactly
\* D * 343 / 20000 (nothing lost by halving D as an integer, nothing lost by
\* storing a long), and distance < 20 holds exactly when D * 343 / 20000 < 20.
C10_DistanceExact ==
    (sketch \in {"oa", "park"} /\ issued /= <<>> /\ echoSeen) =>
        /\ distance * 20000 = duration * 343
        /\ OaNear(distance) <=> (duration * 343 < 20 * 20000)

=============================================================================
